---- MODULE Spec2Model ----
(***************************************************************************)
(* A model of the ledger of portfolio_tracker: the SQLite connection with  *)
(* its scoped transaction, the repositories for transactions, tax lots,    *)
(* holdings and cash, and the commands that write through them.            *)
(*                                                                         *)
(* Units.  Every quantity is a Decimal in the code.  The model counts      *)
(* shares in units of 0.0001 share (the quantum of rebalancer.py), prices  *)
(* in whole euros, and amounts (quantity * price) in units of 0.0001 euro. *)
(* Decimal +, - and * are exact on these, and str(Decimal) followed by     *)
(* Decimal(text) returns the same value, so a stored column holds the      *)
(* integer itself.  acquired_date is stored as isoformat text and ordered  *)
(* as text by SQLite; on dates of one format that order is the order of    *)
(* the dates, which the model counts as days 1..MaxDate.                   *)
(***************************************************************************)
EXTENDS Integers, Sequences, FiniteSets, TLC

VARIABLES conn, last, sellers

vars == <<conn, last, sellers>>

\* ---------------------------------------------------------------- bounds
MaxTx == 3
MaxDate == 2
MaxQty == 2
MaxPrice == 1
MaxCash == 1
MaxOver == 1
MaxWrites == 2
MaxGain == 1300

\* ------------------------------------------------------------- constants
\* Amounts are counted in units of 1 / AmountScale euro.
AmountScale == 10000

\* The bits of the significand of a binary64.
Significand == 53

\* Percentages are counted in units of 1 / PctScale of the whole: 0.01 %.
PctScale == 10000
ABGELTUNGSSTEUER_RATE == 25
SOLI_RATE == 55
BASISERTRAG_FACTOR == 7
DEFAULT_FREISTELLUNGSAUFTRAG == 200000

\* ------------------------------------------------------------ the domain
Holdings == {"h1", "h2"}

\* holdings.asset_type and holdings.isin, and the rows in the order of
\* list_by_portfolio: ORDER BY asset_type, isin.
AssetType == [h1 |-> "etf", h2 |-> "bond"]

Isin == [h1 |-> "IE00BP3QZ601", h2 |-> "LU0274209740"]

HoldingOrder == <<"h2", "h1">>

\* sorted(set(h.asset_type.value for h in holdings))
SortedTypes == <<"bond", "etf">>

\* What a target can be keyed by, in the order of ORDER BY asset_type.
KeyOrder == <<"IE00BP3QZ601", "LU0274209740", "bond", "etf">>

\* None and a value, for what may be absent: the latest price of a holding,
\* the target of a key, the realized gain of a transaction.
NoPrice == <<>>

NoTarget == <<>>

NoGain == <<>>

Some(x) == <<x>>

NoSource == "None"

Dates == 1 .. MaxDate

Min(a, b) == IF a < b THEN a ELSE b

\* ------------------------------------------------- SQLite REAL arithmetic
\* A REAL is an IEEE 754 binary64: a sign and 53 bits, the first of them 1,
\* that stand for the integer they spell times 2^exp; zero has no bits.  Bit
\* sequences are written most significant bit first.
Zero == [sign |-> 0, mant |-> <<>>, exp |-> 0]

Zeros(n) == [i \in 1 .. n |-> 0]

PadLeft(b, n) == Zeros(n - Len(b)) \o b

RECURSIVE Strip(_)
Strip(b) == IF b = <<>> \/ Head(b) = 1 THEN b ELSE Strip(Tail(b))

\* a + b + carry for a and b of one length n; the result has n + 1 bits.
\* c[i] is the carry out of the i lowest bits.
AddBits(a, b, carry) ==
  LET n == Len(a)
      c[i \in 0 .. n] ==
        IF i = 0 THEN carry
        ELSE (a[n + 1 - i] + b[n + 1 - i] + c[i - 1]) \div 2
  IN  [j \in 1 .. n + 1 |->
         IF j = 1 THEN c[n]
         ELSE (a[j - 1] + b[j - 1] + c[n + 1 - j]) % 2]

\* a - b for a >= b of one length n.  w[i] is the borrow out of the i lowest
\* bits.
SubBits(a, b) ==
  LET n == Len(a)
      w[i \in 0 .. n] ==
        IF i = 0 THEN 0
        ELSE IF a[n + 1 - i] - b[n + 1 - i] - w[i - 1] < 0 THEN 1 ELSE 0
  IN  [j \in 1 .. n |-> (a[j] - b[j] - w[n - j] + 2) % 2]

RECURSIVE LessBits(_, _)
LessBits(a, b) ==
  IF a = <<>> THEN FALSE
  ELSE IF Head(a) # Head(b) THEN Head(a) < Head(b)
  ELSE LessBits(Tail(a), Tail(b))

RECURSIVE IntBits(_)
IntBits(n) == IF n = 0 THEN <<>> ELSE IntBits(n \div 2) \o <<n % 2>>

\* The binary64 nearest to bits * 2^exp (plus something below the last bit
\* if sticky), ties to the even significand.
RoundBits(sign, bits, exp, sticky) ==
  LET b == Strip(bits)
  IN  IF b = <<>> THEN Zero
      ELSE IF Len(b) <= Significand
      THEN [sign |-> sign, mant |-> b \o Zeros(Significand - Len(b)),
            exp |-> exp - (Significand - Len(b))]
      ELSE LET top  == SubSeq(b, 1, Significand)
               rest == SubSeq(b, Significand + 1, Len(b))
               more == sticky \/ \E i \in 2 .. Len(rest) : rest[i] = 1
               up   == rest[1] = 1 /\ (more \/ top[Significand] = 1)
               inc  == AddBits(top, Zeros(Significand), 1)
               e    == exp + Len(rest)
           IN  IF ~up THEN [sign |-> sign, mant |-> top, exp |-> e]
               ELSE IF inc[1] = 1
               THEN [sign |-> sign, mant |-> SubSeq(inc, 1, Significand),
                     exp |-> e + 1]
               ELSE [sign |-> sign, mant |-> Tail(inc), exp |-> e]

\* x + y of two REALs: the exact sum, rounded once.
RealAdd(x, y) ==
  IF x.mant = <<>> THEN y
  ELSE IF y.mant = <<>> THEN x
  ELSE LET e  == Min(x.exp, y.exp)
           a  == x.mant \o Zeros(x.exp - e)
           b  == y.mant \o Zeros(y.exp - e)
           n  == IF Len(a) < Len(b) THEN Len(b) ELSE Len(a)
           pa == PadLeft(a, n)
           pb == PadLeft(b, n)
       IN  IF x.sign = y.sign
           THEN RoundBits(x.sign, AddBits(pa, pb, 0), e, FALSE)
           ELSE IF LessBits(pa, pb)
           THEN RoundBits(y.sign, SubBits(pb, pa), e, FALSE)
           ELSE RoundBits(x.sign, SubBits(pa, pb), e, FALSE)

\* The bits after the binary point of r / AmountScale, one at a time: the
\* next bit, and what is left of r after it.
FracBit(r) == IF 2 * r >= AmountScale THEN 1 ELSE 0

FracLeft(r) == 2 * r - FracBit(r) * AmountScale

\* The significant bits known once the next bit of r is: leading zeros do
\* not count.
FracSeen(r, significant) ==
  IF significant > 0 \/ FracBit(r) = 1 THEN significant + 1 ELSE 0

\* The bits are taken until the number has two significant bits more than a
\* REAL keeps, or nothing is left.
RECURSIVE FracBits(_, _)
FracBits(r, significant) ==
  IF r = 0 \/ significant >= Significand + 2 THEN <<>>
  ELSE <<FracBit(r)>> \o FracBits(FracLeft(r), FracSeen(r, significant))

\* What is left after those bits.
RECURSIVE FracRest(_, _)
FracRest(r, significant) ==
  IF r = 0 \/ significant >= Significand + 2 THEN r
  ELSE FracRest(FracLeft(r), FracSeen(r, significant))

\* The REAL that SQLite reads from the text of an amount: the amount is k
\* units of 1 / AmountScale, its text is the decimal str(Decimal) wrote.
RealOfText(k) ==
  LET abs  == IF k < 0 THEN -k ELSE k
      int  == IntBits(abs \div AmountScale)
      frac == FracBits(abs % AmountScale, Len(int))
  IN  RoundBits(IF k < 0 THEN 1 ELSE 0, int \o frac, -Len(frac),
                FracRest(abs % AmountScale, Len(int)) # 0)

\* ------------------------------------------------- database.py: Database
\* The connection: what it reads (work, with its uncommitted writes), what
\* is committed (disk), and the _in_transaction flag.
EmptyTables ==
  [ holdings |-> [h \in Holdings |-> [shares |-> 0, cost_basis |-> 0]],
    txs      |-> <<>>,
    lots     |-> <<>>,
    cash     |-> <<>>,
    prices   |-> [h \in Holdings |-> NoPrice],
    targets  |-> [k \in {KeyOrder[i] : i \in DOMAIN KeyOrder} |-> NoTarget] ]

commit(c) == [c EXCEPT !.disk = c.work]

\* A rollback that discards nothing.
rollback_keeps(c) == c

rollback(c) == [c EXCEPT !.work = c.disk]

\* A repository statement: execute, then commit unless a scope is open.
execute(c, t) ==
  IF c.inTx THEN [c EXCEPT !.work = t] ELSE commit([c EXCEPT !.work = t])

\* One call of the body of a transaction scope.  o is the outcome so far, c
\* the connection as the call leaves it, failAt the call at which the storage
\* raises (0: none does).  After an exception no further call is made.
Call(o, k, failAt, c) ==
  IF o.raised THEN o
  ELSE IF failAt = k THEN [o EXCEPT !.raised = TRUE]
  ELSE [o EXCEPT !.c = c]

\* with db.transaction(): the flag set on entry; on exit a commit, or a
\* rollback if the body raised, and the flag reset in both cases.
transaction_enter(c) == [c |-> [c EXCEPT !.inTx = TRUE], raised |-> FALSE]

\* An exit that commits also after an exception.
transaction_exit_commits(o) ==
  [c |-> [commit(o.c) EXCEPT !.inTx = FALSE], raised |-> o.raised]

transaction_exit(o) ==
  LET ended == IF o.raised THEN rollback(o.c) ELSE commit(o.c)
  IN  [c |-> [ended EXCEPT !.inTx = FALSE], raised |-> o.raised]

\* ----------------------------------------------------------- repositories
tx_create(c, row) == execute(c, [c.work EXCEPT !.txs = Append(@, row)])

lots_create(c, row) == execute(c, [c.work EXCEPT !.lots = Append(@, row)])

cash_create(c, row) == execute(c, [c.work EXCEPT !.cash = Append(@, row)])

holdings_save(c, h, shares, cost_basis) ==
  execute(c, [c.work EXCEPT !.holdings[h] =
                              [shares |-> shares, cost_basis |-> cost_basis]])

\* HoldingsRepository.update_shares_and_cost
update_shares_and_cost(c, h, shares, cost_basis) ==
  execute(c, [c.work EXCEPT !.holdings[h] =
                              [shares |-> shares, cost_basis |-> cost_basis]])

\* PricesRepository.store_price adds a price point; get_latest reads the
\* newest one, the only one the model keeps.
store_price(c, h, price) == execute(c, [c.work EXCEPT !.prices[h] = Some(price)])

\* TargetsRepository.set_target: an upsert, committed whatever the scope.
set_target(c, key, target_pct, threshold) ==
  commit([c EXCEPT !.work.targets[key] =
                     Some([target_percentage |-> target_pct,
                           rebalance_threshold |-> threshold])])

\* TargetsRepository.delete: committed whatever the scope.
delete_target(c, key) == commit([c EXCEPT !.work.targets[key] = NoTarget])

\* A source id is taken when a row carries it: INSERT OR IGNORE then inserts
\* nothing.
SourceIdTaken(rows, sid) == \E i \in DOMAIN rows : rows[i].source_id = sid

tx_create_sourced(c, row) ==
  IF SourceIdTaken(c.work.txs, row.source_id) THEN c ELSE tx_create(c, row)

cash_create_sourced(c, row) ==
  IF SourceIdTaken(c.work.cash, row.source_id) THEN c ELSE cash_create(c, row)

\* SELECT COALESCE(SUM(amount), 0): amount is a TEXT column, so SQLite reads
\* each text as a REAL and adds the REALs in the order of the rows.
RECURSIVE SumReal(_, _)
SumReal(cash, i) ==
  IF i = 0 THEN Zero
  ELSE RealAdd(SumReal(cash, i - 1), RealOfText(cash[i].amount))

get_balance(t) == SumReal(t.cash, Len(t.cash))

reduce_lot(c, lot_id, qty_consumed) ==
  LET new_qty == c.work.lots[lot_id].quantity_remaining - qty_consumed
  IN  execute(c, [c.work EXCEPT !.lots[lot_id].quantity_remaining = new_qty])

\* ORDER BY id ASC alone.
FifoBefore_by_id(lots, i, j) == i < j

\* ORDER BY acquired_date ASC, id ASC
FifoBefore(lots, i, j) ==
  \/ lots[i].acquired_date < lots[j].acquired_date
  \/ /\ lots[i].acquired_date = lots[j].acquired_date
     /\ i < j

RECURSIVE OrderLots(_, _)
OrderLots(lots, ids) ==
  IF ids = {} THEN <<>>
  ELSE LET first == CHOOSE i \in ids :
                      \A j \in ids \ {i} : FifoBefore(lots, i, j)
       IN  <<first>> \o OrderLots(lots, ids \ {first})

get_open_lots_fifo(t, h) ==
  LET rows == OrderLots(t.lots,
                        {i \in DOMAIN t.lots : t.lots[i].holding_id = h})
  IN  SelectSeq(rows, LAMBDA i : t.lots[i].quantity_remaining > 0)

RECURSIVE FifoCost(_, _, _)
FifoCost(lots, h, i) ==
  IF i = 0 THEN 0
  ELSE FifoCost(lots, h, i - 1)
       + (IF lots[i].holding_id = h /\ lots[i].quantity_remaining > 0
          THEN lots[i].quantity_remaining * lots[i].cost_per_unit
          ELSE 0)

get_fifo_cost_basis(t, h) == FifoCost(t.lots, h, Len(t.lots))

\* ---------------------------------------- transactions.py: the recorder
\* The read-only FIFO preview of a sell (lines 67-78).
RECURSIVE fifo_match(_, _, _, _)
fifo_match(lots, open_lots, qty_remaining_temp, prc) ==
  IF open_lots = <<>> \/ qty_remaining_temp <= 0
  THEN [realized_gain |-> 0, lots_to_consume |-> <<>>]
  ELSE LET lot == lots[Head(open_lots)]
           consumed == Min(qty_remaining_temp, lot.quantity_remaining)
           rest == fifo_match(lots, Tail(open_lots),
                              qty_remaining_temp - consumed, prc)
       IN  [realized_gain |->
              consumed * (prc - lot.cost_per_unit) + rest.realized_gain,
            lots_to_consume |->
              <<[lot_id |-> Head(open_lots), consumed |-> consumed]>>
                \o rest.lots_to_consume]

\* The checks without the one on the shares held.
Rejects_number_only(h_shares, tx_type, qty, prc) == qty <= 0 \/ prc < 0

\* qty <= 0 or prc < 0, then a sell of more than the shares held.
Rejects(h_shares, tx_type, qty, prc) ==
  \/ qty <= 0
  \/ prc < 0
  \/ tx_type = "sell" /\ qty > h_shares

\* The shares of the buy put in place of the shares held.
BuyShares_overwrites(h_shares, qty) == qty

BuyShares(h_shares, qty) == h_shares + qty

\* The cost of the buy put in place of the cost basis.
BuyCost_overwrites(h_cost_basis, qty, prc) == qty * prc

BuyCost(h_cost_basis, qty, prc) == h_cost_basis + (qty * prc)

SellShares(h_shares, qty) == h_shares - qty

BuyCashAmount(qty, prc) == -(qty * prc)

SellCashAmount(qty, prc) == qty * prc

\* for lot_id, consumed in lots_to_consume: lots_repo.reduce_lot(...)
RECURSIVE ReduceAll(_, _, _, _)
ReduceAll(o, k, failAt, lots_to_consume) ==
  IF lots_to_consume = <<>> THEN o
  ELSE ReduceAll(
         Call(o, k, failAt,
              reduce_lot(o.c, Head(lots_to_consume).lot_id,
                         Head(lots_to_consume).consumed)),
         k + 1, failAt, Tail(lots_to_consume))

\* The body of the transaction scope of a buy (lines 82-95, 102-112).
BuyBody(o, h, hd, qty, prc, date, failAt) ==
  LET o1 == Call(o, 1, failAt,
              tx_create(o.c, [holding_id |-> h, transaction_type |-> "buy",
                              quantity |-> qty, price |-> prc,
                              realized_gain |-> NoGain,
                              source_id |-> NoSource]))
      o2 == Call(o1, 2, failAt,
              lots_create(o1.c, [holding_id |-> h, acquired_date |-> date,
                                 quantity |-> qty, cost_per_unit |-> prc,
                                 quantity_remaining |-> qty,
                                 buy_transaction_id |-> Len(o1.c.work.txs)]))
      o3 == Call(o2, 3, failAt,
              holdings_save(o2.c, h, BuyShares(hd.shares, qty),
                            BuyCost(hd.cost_basis, qty, prc)))
  IN  Call(o3, 4, failAt,
        cash_create(o3.c, [cash_type |-> "buy",
                           amount |-> BuyCashAmount(qty, prc),
                           source_id |-> NoSource]))

\* The body of the transaction scope of a sell (lines 82-86, 96-104, 113-118).
SellBody(o, h, hd, qty, prc, m, failAt) ==
  LET n  == Len(m.lots_to_consume)
      o1 == Call(o, 1, failAt,
              tx_create(o.c, [holding_id |-> h, transaction_type |-> "sell",
                              quantity |-> qty, price |-> prc,
                              realized_gain |-> Some(m.realized_gain),
                              source_id |-> NoSource]))
      o2 == ReduceAll(o1, 2, failAt, m.lots_to_consume)
      o3 == Call(o2, n + 2, failAt,
              holdings_save(o2.c, h, SellShares(hd.shares, qty),
                            get_fifo_cost_basis(o2.c.work, h)))
  IN  Call(o3, n + 3, failAt,
        cash_create(o3.c, [cash_type |-> "sell",
                           amount |-> SellCashAmount(qty, prc),
                           source_id |-> NoSource]))

NoMatch == [realized_gain |-> 0, lots_to_consume |-> <<>>]

\* ------------------------------------------------------ core/tax
\* Amounts of the tax engine are in cents, the exemption rate in percent.
\* TaxInfo() with its defaults.
TaxInfo ==
  [ gross_gain |-> 0, teilfreistellung_exempt |-> 0,
    freistellungsauftrag_used |-> 0, taxable_gain |-> 0,
    abgeltungssteuer |-> 0, solidaritaetszuschlag |-> 0,
    total_tax |-> 0, net_gain |-> 0 ]

Max(a, b) == IF a > b THEN a ELSE b

\* Decimal.quantize(Decimal("0.01")) of n / d cents under the default
\* context, whose rounding is ROUND_HALF_EVEN.
quantize(n, d) ==
  LET q == n \div d
      r == n % d
  IN  IF 2 * r < d THEN q
      ELSE IF 2 * r > d THEN q + 1
      ELSE IF q % 2 = 0 THEN q ELSE q + 1

apply_teilfreistellung(gain, rate) ==
  LET exempt == quantize(gain * rate, 100)
  IN  [exempt |-> exempt, taxable |-> gain - exempt]

apply_freistellungsauftrag(taxable_gain, available_fsa) ==
  [ used |-> Min(taxable_gain, available_fsa),
    remaining |-> Max(taxable_gain - available_fsa, 0) ]

calculate_abgeltungssteuer(taxable_gain) ==
  quantize(taxable_gain * ABGELTUNGSSTEUER_RATE, 100)

calculate_soli(abgeltungssteuer) ==
  quantize(abgeltungssteuer * SOLI_RATE, 1000)

\* The early return taken for a gain of 0 only, not for a loss.
NoGainToTax_zero_only(realized_gain) == realized_gain = 0

\* if realized_gain <= 0: return
NoGainToTax(realized_gain) == realized_gain <= 0

\* The allowance applied to the gain before the exemption.
calculate_german_tax_allowance_first(realized_gain, freistellungsauftrag, teilfreistellung_rate) ==
  IF NoGainToTax(realized_gain)
  THEN [TaxInfo EXCEPT !.gross_gain = realized_gain,
                       !.net_gain = realized_gain]
  ELSE LET fsa   == apply_freistellungsauftrag(realized_gain,
                                               freistellungsauftrag)
           tfs   == apply_teilfreistellung(fsa.remaining,
                                           teilfreistellung_rate)
           abgst == IF tfs.taxable > 0
                    THEN calculate_abgeltungssteuer(tfs.taxable) ELSE 0
           soli  == IF tfs.taxable > 0 THEN calculate_soli(abgst) ELSE 0
       IN  [ gross_gain |-> realized_gain,
             teilfreistellung_exempt |-> tfs.exempt,
             freistellungsauftrag_used |-> fsa.used,
             taxable_gain |-> tfs.taxable,
             abgeltungssteuer |-> abgst,
             solidaritaetszuschlag |-> soli,
             total_tax |-> abgst + soli,
             net_gain |-> realized_gain - (abgst + soli) ]

calculate_german_tax(realized_gain, freistellungsauftrag, teilfreistellung_rate) ==
  IF NoGainToTax(realized_gain)
  THEN [TaxInfo EXCEPT !.gross_gain = realized_gain,
                       !.net_gain = realized_gain]
  ELSE LET tfs   == apply_teilfreistellung(realized_gain,
                                           teilfreistellung_rate)
           fsa   == apply_freistellungsauftrag(tfs.taxable,
                                               freistellungsauftrag)
           abgst == IF fsa.remaining > 0
                    THEN calculate_abgeltungssteuer(fsa.remaining) ELSE 0
           soli  == IF fsa.remaining > 0 THEN calculate_soli(abgst) ELSE 0
       IN  [ gross_gain |-> realized_gain,
             teilfreistellung_exempt |-> tfs.exempt,
             freistellungsauftrag_used |-> fsa.used,
             taxable_gain |-> fsa.remaining,
             abgeltungssteuer |-> abgst,
             solidaritaetszuschlag |-> soli,
             total_tax |-> abgst + soli,
             net_gain |-> realized_gain - (abgst + soli) ]

\* No tax call yet.
NoTax == [fsa |-> 0, rate |-> 0, info |-> TaxInfo]

\* ---------------------------------------- core/tax/vorabpauschale.py
\* Prices are in cents, shares in units of 1 / AmountScale share, the base
\* rate in units of 0.0001, per-share amounts in units of 0.0001 euro,
\* the prepayment and its parts in cents.
BASISZINS ==
  [ y \in 2019 .. 2025 |->
      CASE y = 2019 -> 52
        [] y \in 2020 .. 2022 -> 0
        [] y = 2023 -> 255
        [] y = 2024 -> 229
        [] y = 2025 -> 253 ]

\* The table of the same name in core/calculator.py, which is the one the
\* command reads.
PortfolioCalculator_BASISZINS ==
  [ y \in 2021 .. 2025 |->
      CASE y \in 2021 .. 2022 -> 0
        [] y = 2023 -> 255
        [] y = 2024 -> 229
        [] y = 2025 -> 253 ]

\* table.get(year) with a default that is not 0.
basiszins_of_2023(table, year) ==
  IF year \in DOMAIN table THEN table[year] ELSE table[2023]

\* table.get(year, Decimal("0"))
basiszins_of(table, year) ==
  IF year \in DOMAIN table THEN table[year] ELSE 0

VorabpauschaleResult ==
  [ basisertrag_per_share |-> 0, fondszuwachs_per_share |-> 0,
    vorabpauschale |-> 0, tfs_exempt |-> 0, taxable_vp |-> 0 ]

\* min(basisertrag_per_share, fondszuwachs_per_share) left out: the base
\* return alone.
vp_per_share_uncapped(basisertrag_per_share, fondszuwachs_per_share) ==
  basisertrag_per_share

vp_per_share(basisertrag_per_share, fondszuwachs_per_share) ==
  Min(basisertrag_per_share, fondszuwachs_per_share)

\* The body the two calculate_vorabpauschale share, after the table lookup.
vorabpauschale_of(basiszins, shares_jan1, price_jan1, price_dec31, teilfreistellung_rate) ==
  LET basisertrag  == quantize(price_jan1 * basiszins
                                 * BASISERTRAG_FACTOR, 1000)
      fondszuwachs == Max((price_dec31 - price_jan1) * 100, 0)
      per_share    == vp_per_share(basisertrag, fondszuwachs)
      vp           == quantize(per_share * shares_jan1, AmountScale * 100)
      tfs_exempt   == quantize(vp * teilfreistellung_rate, 100)
  IN  [ basisertrag_per_share |-> basisertrag,
        fondszuwachs_per_share |-> fondszuwachs,
        vorabpauschale |-> vp,
        tfs_exempt |-> tfs_exempt,
        taxable_vp |-> vp - tfs_exempt ]

calculate_vorabpauschale(year, shares_jan1, price_jan1, price_dec31, teilfreistellung_rate) ==
  vorabpauschale_of(basiszins_of(BASISZINS, year), shares_jan1, price_jan1,
                    price_dec31, teilfreistellung_rate)

PortfolioCalculator_calculate_vorabpauschale(year, shares_jan1, price_jan1, price_dec31, teilfreistellung_rate) ==
  vorabpauschale_of(basiszins_of(PortfolioCalculator_BASISZINS, year),
                    shares_jan1, price_jan1, price_dec31,
                    teilfreistellung_rate)

\* No prepayment call yet.
NoVp ==
  [ year |-> 0, shares_jan1 |-> 0, price_jan1 |-> NoPrice,
    price_dec31 |-> NoPrice, tfs_rate |-> 0, result |-> VorabpauschaleResult ]

\* The tax estimates of a portfolio and a year: the sells of the year, the
\* prepayment results of the year, the commands that have shown their
\* estimate, and the allowance each of them has used, in cents.
NoEstimate ==
  [ sells |-> <<>>, results |-> <<>>, shown |-> {},
    fsa_used |-> [realized |-> 0, vorabpauschale |-> 0] ]

\* What the last command was and how it ended.  A command that changed
\* nothing leaves only its outcome here: "rejected" with the message it
\* printed, or "failed" with the number of the call that raised.
Idle ==
  [ op |-> "none", outcome |-> "none", reason |-> "none", failAt |-> 0,
    holding |-> "h1", tx_type |-> "none", qty |-> 0, prc |-> 0,
    match |-> NoMatch, lot |-> 0,
    file |-> <<>>, imported |-> 0, skipped |-> 0, writes |-> <<>>,
    tax |-> NoTax, vp |-> NoVp,
    rebalancer |-> EmptyTables, deviations |-> <<>>, trades |-> <<>>,
    estimate |-> NoEstimate ]

\* _record_transaction: one buy or sell command, whole.
record_transaction(h, tx_type, qty, prc, date, failAt) ==
  LET hd == conn.work.holdings[h]
      m  == IF tx_type = "sell"
            THEN fifo_match(conn.work.lots,
                            get_open_lots_fifo(conn.work, h), qty, prc)
            ELSE NoMatch
      calls == IF tx_type = "sell" THEN Len(m.lots_to_consume) + 3 ELSE 4
      req == [Idle EXCEPT !.op = "record"]
  IN  IF Rejects(hd.shares, tx_type, qty, prc)
      THEN /\ failAt = 0
           /\ UNCHANGED sellers
           /\ conn' = conn
           /\ last' = [req EXCEPT !.outcome = "rejected",
                                  !.reason = IF qty <= 0 \/ prc < 0
                                             THEN "number" ELSE "oversell"]
      ELSE /\ Len(conn.work.txs) < MaxTx
           /\ failAt <= calls
           /\ LET o == transaction_enter(conn)
                  r == transaction_exit(
                         IF tx_type = "buy"
                         THEN BuyBody(o, h, hd, qty, prc, date, failAt)
                         ELSE SellBody(o, h, hd, qty, prc, m, failAt))
              IN  /\ UNCHANGED sellers
                  /\ conn' = r.c
                  /\ last' = IF r.raised
                             THEN [req EXCEPT !.outcome = "failed",
                                              !.failAt = failAt]
                             ELSE [req EXCEPT !.outcome = "ok", !.holding = h,
                                              !.tx_type = tx_type, !.qty = qty,
                                              !.prc = prc, !.match = m]

\* Two sell commands run as two processes on one database file.  Each reads
\* the holding and computes its FIFO preview (lines 33-78) and later runs
\* its transaction scope (lines 80-118); SQLite lets one writer in at a
\* time, so a scope is one step, and the reads before it are another.
Sellers == {"s1", "s2"}

NoSeller ==
  [ pc |-> "start", holding |-> "h1", h |-> [shares |-> 0, cost_basis |-> 0],
    qty |-> 0, prc |-> 0, match |-> NoMatch ]

\* _record_transaction of a sell up to the preview: h is the holding as read
\* at line 33, match the lots_to_consume and realized_gain of lines 67-78.
sell_preview(p, h, qty, prc) ==
  LET hd == conn.work.holdings[h]
  IN  /\ sellers[p].pc = "start"
      /\ sellers' =
           [sellers EXCEPT ![p] =
              IF Rejects(hd.shares, "sell", qty, prc)
              THEN [NoSeller EXCEPT !.pc = "rejected"]
              ELSE [pc |-> "previewed", holding |-> h, h |-> hd,
                    qty |-> qty, prc |-> prc,
                    match |-> fifo_match(conn.work.lots,
                                         get_open_lots_fifo(conn.work, h),
                                         qty, prc)]]
      /\ UNCHANGED <<conn, last>>

\* The rest of the command: the transaction scope, on the holding and the
\* match the process read before.
sell_apply(p) ==
  LET s == sellers[p]
      req == [Idle EXCEPT !.op = "record"]
  IN  /\ s.pc = "previewed"
      /\ Len(conn.work.txs) < MaxTx
      /\ LET r == transaction_exit(
                    SellBody(transaction_enter(conn), s.holding, s.h,
                             s.qty, s.prc, s.match, 0))
         IN  /\ conn' = r.c
             /\ last' = [req EXCEPT !.outcome = "ok", !.holding = s.holding,
                                    !.tx_type = "sell", !.qty = s.qty,
                                    !.prc = s.prc, !.match = s.match]
      /\ sellers' = [sellers EXCEPT ![p].pc = "done"]

\* ------------------------------------- calculator.py and rebalancer.py
\* Decimal.quantize of n / d (n >= 0, d > 0) to a whole number of units,
\* ROUND_HALF_EVEN.  The divisions before it keep 28 digits; on the numbers
\* of the model no quotient is that close to a tie without being one.
RoundHalfEven(n, d) ==
  LET q == n \div d
      r == n % d
  IN  IF 2 * r < d THEN q
      ELSE IF 2 * r > d THEN q + 1
      ELSE IF q % 2 = 0 THEN q ELSE q + 1

Abs(x) == IF x < 0 THEN -x ELSE x

\* _is_isin: twelve characters, two letters then ten letters or digits.
IsIsin(key) == key \in {Isin[h] : h \in Holdings}

\* _load_holdings_with_prices: the latest price, where there is one.
current_price(t, h) == t.prices[h][1]

\* Holding.current_value: shares * current_price, 0 without a price.
current_value(t, h) ==
  IF t.prices[h] = NoPrice THEN 0
  ELSE t.holdings[h].shares * current_price(t, h)

RECURSIVE SumValue(_, _)
SumValue(t, hs) ==
  IF hs = {} THEN 0
  ELSE LET h == CHOOSE x \in hs : TRUE
       IN  current_value(t, h) + SumValue(t, hs \ {h})

total_value(t) == SumValue(t, {h \in Holdings : t.prices[h] # NoPrice})

\* The share of a priced holding, in units of 0.01 per cent.
HoldingPct(t, h) ==
  RoundHalfEven(current_value(t, h) * PctScale, total_value(t))

RECURSIVE SumPct(_, _)
SumPct(t, hs) ==
  IF hs = {} THEN 0
  ELSE LET h == CHOOSE x \in hs : TRUE
       IN  HoldingPct(t, h) + SumPct(t, hs \ {h})

KeyOf(h, by_isin) == IF by_isin THEN Isin[h] ELSE AssetType[h]

\* allocation_by_type and allocation_by_isin: the keys that have a share, and
\* the share of a key.
AllocKeys(t, by_isin) ==
  IF total_value(t) = 0 THEN {}
  ELSE {KeyOf(h, by_isin) : h \in {x \in Holdings : t.prices[x] # NoPrice}}

Alloc(t, by_isin, key) ==
  SumPct(t, {h \in Holdings :
               t.prices[h] # NoPrice /\ KeyOf(h, by_isin) = key})

TargetKeys(t) == {k \in DOMAIN t.targets : t.targets[k] # NoTarget}

ByIsin(t) == \E k \in TargetKeys(t) : IsIsin(k)

\* A key is flagged also when the deviation is as large as the threshold.
needs_rebalance_at_threshold(deviation, threshold) ==
  Abs(deviation) >= threshold

\* abs(deviation) > target.rebalance_threshold
needs_rebalance(deviation, threshold) == Abs(deviation) > threshold

\* check_deviation: the entry of a key.
Deviation(t, key) ==
  IF key \in TargetKeys(t)
  THEN LET current == IF key \in AllocKeys(t, ByIsin(t))
                      THEN Alloc(t, ByIsin(t), key) ELSE 0
           dev == current - t.targets[key][1].target_percentage
       IN  [key |-> key, current |-> current,
            target |-> t.targets[key][1].target_percentage,
            deviation |-> dev,
            threshold |-> t.targets[key][1].rebalance_threshold,
            needs_rebalance |->
              needs_rebalance(dev, t.targets[key][1].rebalance_threshold)]
  ELSE [key |-> key, current |-> Alloc(t, ByIsin(t), key), target |-> 0,
        deviation |-> Alloc(t, ByIsin(t), key), threshold |-> 0,
        needs_rebalance |-> TRUE]

\* The keys of check_deviation in the order of the dict: the targets in
\* their order, then the keys that have a share and no target in the order
\* of the holdings.
AllocOrder(t) ==
  IF ByIsin(t) THEN [i \in DOMAIN HoldingOrder |-> Isin[HoldingOrder[i]]]
  ELSE SortedTypes

DeviationKeys(t) ==
  SelectSeq(KeyOrder, LAMBDA k : k \in TargetKeys(t))
    \o SelectSeq(AllocOrder(t), LAMBDA k :
          k \in AllocKeys(t, ByIsin(t)) /\ k \notin TargetKeys(t))

\* check_deviation: the entries in the order of the dict.
check_deviation(t) ==
  [i \in DOMAIN DeviationKeys(t) |-> Deviation(t, DeviationKeys(t)[i])]

Matching(t, key) ==
  SelectSeq(HoldingOrder, LAMBDA h :
    /\ KeyOf(h, ByIsin(t)) = key
    /\ t.prices[h] # NoPrice
    /\ current_price(t, h) > 0)

\* (per_holding_value / h.current_price).quantize(Decimal("0.0001")), where
\* per_holding_value = abs(deviation) / 100 * portfolio_value / len(matching)
TradeShares(t, key, h) ==
  RoundHalfEven(Abs(Deviation(t, key).deviation) * total_value(t),
                PctScale * Len(Matching(t, key)) * current_price(t, h))

\* The sale without min(shares_to_sell, h.shares).
shares_to_sell_unclamped(t, key, h) == TradeShares(t, key, h)

\* min(shares_to_sell, h.shares)
shares_to_sell(t, key, h) ==
  Min(TradeShares(t, key, h), t.holdings[h].shares)

\* The trades of one key, one for each matching holding.
RECURSIVE KeyTrades(_, _, _)
KeyTrades(t, key, hs) ==
  IF hs = <<>> THEN <<>>
  ELSE LET h    == Head(hs)
           sell == Deviation(t, key).deviation > 0
           n    == IF sell THEN shares_to_sell(t, key, h)
                   ELSE TradeShares(t, key, h)
       IN  (IF n > 0
            THEN <<[action |-> IF sell THEN "sell" ELSE "buy", holding |-> h,
                    shares |-> n, current_price |-> current_price(t, h)]>>
            ELSE <<>>)
           \o KeyTrades(t, key, Tail(hs))

\* No key is passed over.
skips_key_never(t, key) == FALSE

\* if not info["needs_rebalance"]: continue
skips_key(t, key) == ~Deviation(t, key).needs_rebalance

RECURSIVE TradesOf(_, _)
TradesOf(t, keys) ==
  IF keys = <<>> THEN <<>>
  ELSE (IF skips_key(t, Head(keys))
        THEN <<>>
        ELSE KeyTrades(t, Head(keys), Matching(t, Head(keys))))
       \o TradesOf(t, Tail(keys))

suggest_trades(t) ==
  IF total_value(t) = 0 THEN <<>> ELSE TradesOf(t, DeviationKeys(t))

\* RebalanceTrade.trade_value
trade_value(trade) == trade.shares * trade.current_price

\* ------------------------------ rebalancer.py: a Rebalancer and its calls
\* Rebalancer(holdings, targets), the holdings with their latest prices.
rebalancer_new(holdings, prices, targets) ==
  [Idle EXCEPT !.op = "rebalancer", !.outcome = "asked",
               !.rebalancer = [EmptyTables EXCEPT !.holdings = holdings,
                                                  !.prices = prices,
                                                  !.targets = targets]]

check_deviation_call ==
  /\ last.op = "rebalancer" /\ last.outcome = "asked"
  /\ last' = [last EXCEPT !.op = "check_deviation", !.outcome = "ok",
                          !.deviations = check_deviation(last.rebalancer)]
  /\ UNCHANGED <<conn, sellers>>

suggest_trades_call ==
  /\ last.op = "rebalancer" /\ last.outcome = "asked"
  /\ last' = [last EXCEPT !.op = "suggest_trades", !.outcome = "ok",
                          !.trades = suggest_trades(last.rebalancer)]
  /\ UNCHANGED <<conn, sellers>>

\* ------------------------------------------- lots_repo.py: reduce_lot
\* LotsRepository.reduce_lot called on its own: ValueError if no lot has the
\* id, else the difference stored and committed.
reduce_lot_call(lot_id, qty_consumed) ==
  LET req == [Idle EXCEPT !.op = "reduce_lot", !.lot = lot_id,
                          !.qty = qty_consumed]
  IN  IF lot_id \notin DOMAIN conn.work.lots
      THEN /\ UNCHANGED sellers
           /\ conn' = conn
           /\ last' = [req EXCEPT !.outcome = "failed", !.reason = "not found"]
      ELSE /\ conn.work.lots[lot_id].quantity_remaining - qty_consumed
                >= -MaxOver
           /\ UNCHANGED sellers
           /\ conn' = reduce_lot(conn, lot_id, qty_consumed)
           /\ last' = [req EXCEPT !.outcome = "ok"]

\* ------------------------------------------------------- cash.py: add
\* A manual cash movement (top_up, withdrawal, fee): one statement, committed.
OtherCash(t) ==
  SelectSeq(t.cash, LAMBDA r : r.cash_type \notin {"buy", "sell"})

cash_add(cash_type, amount) ==
  /\ Len(OtherCash(conn.work)) < MaxCash
  /\ UNCHANGED sellers
  /\ conn' = cash_create(conn, [cash_type |-> cash_type, amount |-> amount,
                                source_id |-> NoSource])
  /\ last' = [Idle EXCEPT !.op = "cash_add", !.outcome = "ok"]

\* ------------------------------------- a caller of db.transaction()
\* One repository write made while a scope is open.
apply_write(c, w) ==
  CASE w.kind = "cash" ->
         cash_create(c, [cash_type |-> w.key, amount |-> w.value,
                         source_id |-> NoSource])
    [] w.kind = "price" -> store_price(c, w.key, w.value)
    [] w.kind = "target" -> set_target(c, w.key, w.value, 500)
    [] w.kind = "untarget" -> delete_target(c, w.key)

RECURSIVE apply_writes(_, _)
apply_writes(c, writes) ==
  IF writes = <<>> THEN c
  ELSE apply_writes(apply_write(c, Head(writes)), Tail(writes))

\* with db.transaction(): the writes, then the end of the body or an
\* exception raised in it.
scope(writes, raised) ==
  LET o == transaction_enter(conn)
      r == transaction_exit([c |-> apply_writes(o.c, writes),
                             raised |-> raised])
  IN  /\ Len(OtherCash(apply_writes(o.c, writes).work)) <= MaxCash
      /\ UNCHANGED sellers
      /\ conn' = r.c
      /\ last' = [Idle EXCEPT !.op = "scope",
                              !.outcome = IF raised THEN "raised" ELSE "ok",
                              !.writes = writes]

\* ------------------------------------------ a call of the tax engine
\* The arguments of a call that has not returned yet.
tax_asked(realized_gain, freistellungsauftrag, teilfreistellung_rate) ==
  [Idle EXCEPT !.op = "tax", !.outcome = "asked",
               !.tax = [fsa |-> freistellungsauftrag,
                        rate |-> teilfreistellung_rate,
                        info |-> [TaxInfo EXCEPT
                                    !.gross_gain = realized_gain]]]

tax_call ==
  /\ last.op = "tax" /\ last.outcome = "asked"
  /\ last' = [last EXCEPT
                !.outcome = "ok",
                !.tax.info = calculate_german_tax(last.tax.info.gross_gain,
                                                  last.tax.fsa, last.tax.rate)]
  /\ UNCHANGED <<conn, sellers>>

\* -------------------------------- tax.py: vorabpauschale, for a holding
\* The arguments of a call that has not returned yet.
vp_asked(year, shares_jan1, price_jan1, price_dec31, tfs_rate) ==
  [Idle EXCEPT !.op = "vp", !.outcome = "asked",
               !.vp = [NoVp EXCEPT !.year = year,
                                   !.shares_jan1 = shares_jan1,
                                   !.price_jan1 = price_jan1,
                                   !.price_dec31 = price_dec31,
                                   !.tfs_rate = tfs_rate]]

\* calculate_vorabpauschale on prices that are there.
vp_call ==
  /\ last.op = "vp" /\ last.outcome = "asked"
  /\ last.vp.price_jan1 # NoPrice /\ last.vp.price_dec31 # NoPrice
  /\ last' = [last EXCEPT
                !.outcome = "ok",
                !.vp.result = calculate_vorabpauschale(
                                last.vp.year, last.vp.shares_jan1,
                                last.vp.price_jan1[1], last.vp.price_dec31[1],
                                last.vp.tfs_rate)]
  /\ UNCHANGED <<conn, sellers>>

\* The command: nothing due when the base rate of the year is 0; a holding
\* not held on January 1 or without both prices is left out, the latter
\* with a warning; with no holding left there is no table.
vorabpauschale_command ==
  /\ last.op = "vp" /\ last.outcome = "asked"
  /\ last' =
       IF basiszins_of(PortfolioCalculator_BASISZINS, last.vp.year) = 0
       THEN [last EXCEPT !.op = "vp_command",
                         !.outcome = "keine Vorabpauschale faellig"]
       ELSE IF last.vp.shares_jan1 <= 0
       THEN [last EXCEPT !.op = "vp_command",
                         !.outcome = "keine Positionen, keine Vorabpauschale"]
       ELSE IF last.vp.price_jan1 = NoPrice \/ last.vp.price_dec31 = NoPrice
       THEN [last EXCEPT !.op = "vp_command",
                         !.outcome = "keine Positionen, keine Vorabpauschale",
                         !.reason = "could not fetch historical prices"]
       ELSE [last EXCEPT
               !.op = "vp_command", !.outcome = "ok",
               !.vp.result = PortfolioCalculator_calculate_vorabpauschale(
                               last.vp.year, last.vp.shares_jan1,
                               last.vp.price_jan1[1], last.vp.price_dec31[1],
                               last.vp.tfs_rate)]
  /\ UNCHANGED <<conn, sellers>>

\* ------------------------------ tax.py: the estimates of the two commands
\* PortfolioCalculator.calculate_german_tax as the commands call it: the
\* allowance and the exemption rate left to their defaults.
PortfolioCalculator_calculate_german_tax(realized_gain) ==
  calculate_german_tax(realized_gain, DEFAULT_FREISTELLUNGSAUFTRAG, 0)

\* total_taxable of realized: gain - (gain * tfs_rate).quantize(0.01), summed
\* over the sells.
RECURSIVE total_taxable(_)
total_taxable(sells) ==
  IF sells = <<>> THEN 0
  ELSE (Head(sells).gain - quantize(Head(sells).gain * Head(sells).tfs_rate, 100))
         + total_taxable(Tail(sells))

\* total_taxable of vorabpauschale: taxable_vp summed over the results.
RECURSIVE total_taxable_vp(_)
total_taxable_vp(results) ==
  IF results = <<>> THEN 0
  ELSE Head(results).taxable_vp + total_taxable_vp(Tail(results))

tax_year(sells, results) ==
  [Idle EXCEPT !.op = "tax_year", !.outcome = "asked",
               !.estimate = [NoEstimate EXCEPT !.sells = sells,
                                               !.results = results]]

\* realized: nothing without sells, else the estimate on the total.
realized ==
  /\ last.op = "tax_year" /\ "realized" \notin last.estimate.shown
  /\ last' =
       [last EXCEPT
          !.outcome = "ok",
          !.estimate.shown = @ \cup {"realized"},
          !.estimate.fsa_used.realized =
            IF last.estimate.sells = <<>> THEN 0
            ELSE PortfolioCalculator_calculate_german_tax(
                   Max(total_taxable(last.estimate.sells), 0))
                   .freistellungsauftrag_used]
  /\ UNCHANGED <<conn, sellers>>

\* vorabpauschale, from the results on: nothing without results, else the
\* estimate on the total.
vorabpauschale_estimate ==
  /\ last.op = "tax_year" /\ "vorabpauschale" \notin last.estimate.shown
  /\ last' =
       [last EXCEPT
          !.outcome = "ok",
          !.estimate.shown = @ \cup {"vorabpauschale"},
          !.estimate.fsa_used.vorabpauschale =
            IF last.estimate.results = <<>> THEN 0
            ELSE PortfolioCalculator_calculate_german_tax(
                   Max(total_taxable_vp(last.estimate.results), 0))
                   .freistellungsauftrag_used]
  /\ UNCHANGED <<conn, sellers>>

\* ------------------------------------------------ prices.py: fetch
\* A fetched price is stored for a holding.
prices_fetch(h, price) ==
  /\ conn.work.prices[h] # Some(price)
  /\ UNCHANGED sellers
  /\ conn' = store_price(conn, h, price)
  /\ last' = [Idle EXCEPT !.op = "fetch", !.outcome = "ok"]

\* --------------------------------------- rebalance.py: target, execute
\* set_targets: a target for each asset type of the portfolio, in the order
\* of sorted(); a total other than 100 is saved once confirmed.
RECURSIVE SetAll(_, _, _, _)
SetAll(c, keys, pct, threshold) ==
  IF keys = <<>> THEN c
  ELSE SetAll(set_target(c, Head(keys), pct[Head(keys)], threshold[Head(keys)]),
              Tail(keys), pct, threshold)

set_targets(pct, threshold) ==
  LET c == SetAll(conn, SortedTypes, pct, threshold)
  IN  /\ c # conn
      /\ UNCHANGED sellers
      /\ conn' = c
      /\ last' = [Idle EXCEPT !.op = "target", !.outcome = "ok"]

\* One trade of execute (lines 250-274): the transaction, the cash movement,
\* the holding, the calls k, k + 1 and k + 2 of the loop, no scope around
\* them.  hd is the holding as it was loaded before the loop.
ExecuteTrade(o, k, failAt, hd, trade) ==
  LET h  == trade.holding
      o1 == Call(o, k, failAt,
              tx_create(o.c, [holding_id |-> h,
                              transaction_type |-> trade.action,
                              quantity |-> trade.shares,
                              price |-> trade.current_price,
                              realized_gain |-> NoGain,
                              source_id |-> NoSource]))
      cost_per_share ==
        IF hd.shares > 0 THEN hd.cost_basis \div hd.shares ELSE 0
      o2 == Call(o1, k + 1, failAt,
              cash_create(o1.c, [cash_type |-> trade.action,
                                 amount |-> IF trade.action = "buy"
                                            THEN -trade_value(trade)
                                            ELSE trade_value(trade),
                                 source_id |-> NoSource]))
  IN  Call(o2, k + 2, failAt,
        IF trade.action = "buy"
        THEN update_shares_and_cost(o2.c, h, hd.shares + trade.shares,
                                    hd.cost_basis + trade_value(trade))
        ELSE update_shares_and_cost(o2.c, h, hd.shares - trade.shares,
                                    hd.cost_basis
                                      - (trade.shares * cost_per_share)))

RECURSIVE ExecuteAll(_, _, _, _, _)
ExecuteAll(o, k, failAt, holdings, trades) ==
  IF trades = <<>> THEN o
  ELSE ExecuteAll(ExecuteTrade(o, k, failAt, holdings[Head(trades).holding],
                               Head(trades)),
                  k + 3, failAt, holdings, Tail(trades))

\* h.cost_basis / h.shares is a Decimal division, exact when shares divide
\* the cost basis; the model follows the sells where they do.
ExactAverage(holdings, trades) ==
  \A i \in DOMAIN trades :
    trades[i].action = "sell" =>
      holdings[trades[i].holding].cost_basis
        % holdings[trades[i].holding].shares = 0

\* execute, confirmed: nothing without targets or without trades, else every
\* trade in turn, each statement committed on its own; an exception of the
\* storage (at call failAt) ends the command where it is.
rebalance_execute(failAt) ==
  LET t      == conn.work
      trades == suggest_trades(t)
      req    == [Idle EXCEPT !.op = "execute"]
  IN  IF TargetKeys(t) = {} \/ trades = <<>>
      THEN /\ failAt = 0
           /\ UNCHANGED sellers
           /\ conn' = conn
           /\ last' = [req EXCEPT !.outcome = "rejected",
                                  !.reason = IF TargetKeys(t) = {}
                                             THEN "no targets" ELSE "no trades"]
      ELSE /\ Len(t.txs) + Len(trades) <= MaxTx
           /\ ExactAverage(t.holdings, trades)
           /\ failAt <= 3 * Len(trades)
           /\ LET r == ExecuteAll([c |-> conn, raised |-> FALSE], 1, failAt,
                                  t.holdings, trades)
              IN  /\ UNCHANGED sellers
                  /\ conn' = r.c
                  /\ last' = IF r.raised
                             THEN [req EXCEPT !.outcome = "failed",
                                              !.failAt = failAt]
                             ELSE [req EXCEPT !.outcome = "ok"]

\* --------------------------------------- importers: base.py, revolut.py
\* _make_source_id: a digest of the raw text of a row, one for each text.
SourceId == [r1 |-> "revolut:1", r2 |-> "revolut:2", r3 |-> "revolut:3"]

CashSourceId ==
  [r1 |-> "revolut:1:cash", r2 |-> "revolut:2:cash", r3 |-> "revolut:3:cash"]

\* _ensure_holdings: the tickers of the buy rows, each with its holding.
holding_map(file) ==
  {file[i].ticker : i \in {j \in DOMAIN file : file[j].type = "BUY - MARKET"}}

\* _process_row with the lot and the cash movement of a buy row written
\* whether or not the transaction was inserted.
process_row_lot_always(c, row) ==
  IF row.type = "BUY - MARKET"
  THEN LET c1 == tx_create_sourced(c,
                   [holding_id |-> row.ticker,
                    transaction_type |-> "buy",
                    quantity |-> row.quantity, price |-> row.price,
                    realized_gain |-> NoGain,
                    source_id |-> SourceId[row.raw]])
           c2 == lots_create(c1,
                   [holding_id |-> row.ticker,
                    acquired_date |-> row.date,
                    quantity |-> row.quantity,
                    cost_per_unit |-> row.price,
                    quantity_remaining |-> row.quantity,
                    buy_transaction_id |-> Len(c1.work.txs)])
       IN  cash_create_sourced(c2,
             [cash_type |-> "buy", amount |-> -row.total,
              source_id |-> CashSourceId[row.raw]])
  ELSE cash_create_sourced(c,
         [cash_type |-> "top_up", amount |-> row.total,
          source_id |-> SourceId[row.raw]])

\* _process_row: a buy row becomes a transaction with its lot and its cash
\* movement unless its source id is taken; a top-up row a cash movement.
process_row(c, row) ==
  IF row.type = "BUY - MARKET"
  THEN IF SourceIdTaken(c.work.txs, SourceId[row.raw]) THEN c
       ELSE LET c1 == tx_create_sourced(c,
                        [holding_id |-> row.ticker,
                         transaction_type |-> "buy",
                         quantity |-> row.quantity, price |-> row.price,
                         realized_gain |-> NoGain,
                         source_id |-> SourceId[row.raw]])
                c2 == lots_create(c1,
                        [holding_id |-> row.ticker,
                         acquired_date |-> row.date,
                         quantity |-> row.quantity,
                         cost_per_unit |-> row.price,
                         quantity_remaining |-> row.quantity,
                         buy_transaction_id |-> Len(c1.work.txs)])
            IN  cash_create_sourced(c2,
                  [cash_type |-> "buy", amount |-> -row.total,
                   source_id |-> CashSourceId[row.raw]])
  ELSE cash_create_sourced(c,
         [cash_type |-> "top_up", amount |-> row.total,
          source_id |-> SourceId[row.raw]])

RECURSIVE ProcessRows(_, _)
ProcessRows(c, rows) ==
  IF rows = <<>> THEN c
  ELSE ProcessRows(process_row(c, Head(rows)), Tail(rows))

\* _recalculate_holdings: shares and cost basis from the buy transactions.
RECURSIVE SumBuys(_, _, _)
SumBuys(txs, h, i) ==
  IF i = 0 THEN [shares |-> 0, cost_basis |-> 0]
  ELSE LET before == SumBuys(txs, h, i - 1)
       IN  IF txs[i].holding_id = h /\ txs[i].transaction_type = "buy"
           THEN [shares |-> before.shares + txs[i].quantity,
                 cost_basis |-> before.cost_basis
                                  + txs[i].quantity * txs[i].price]
           ELSE before

RECURSIVE recalculate_holdings(_, _)
recalculate_holdings(c, hs) ==
  IF hs = {} THEN c
  ELSE LET h   == CHOOSE x \in hs : TRUE
           sum == SumBuys(c.work.txs, h, Len(c.work.txs))
       IN  recalculate_holdings(
             holdings_save(c, h, sum.shares, sum.cost_basis), hs \ {h})

\* _run_import
run_import(c, file) ==
  recalculate_holdings(ProcessRows(c, file), holding_map(file))

\* ImportResult.cash_imported of a run over file from c; every row of a
\* file adds one to cash_imported or to cash_skipped.
cash_imported(c, file) ==
  Len(ProcessRows(c, file).work.cash) - Len(c.work.cash)

\* BaseImporter.run: _run_import in a transaction scope, which a dry run
\* leaves by an exception.
import_run(file, dry_run) ==
  LET o == transaction_enter(conn)
      r == transaction_exit([c |-> run_import(o.c, file), raised |-> dry_run])
  IN  /\ Len(r.c.work.txs) <= MaxTx
      /\ UNCHANGED sellers
      /\ conn' = r.c
      /\ last' = [Idle EXCEPT !.op = "import",
                              !.outcome = IF dry_run THEN "dry run" ELSE "ok",
                              !.file = file,
                              !.imported = cash_imported(o.c, file),
                              !.skipped = Len(file) - cash_imported(o.c, file)]

\* ------------------------------------------------------ the specifications
Init ==
  /\ conn = [work |-> EmptyTables, disk |-> EmptyTables, inTx |-> FALSE]
  /\ sellers = [p \in Sellers |-> NoSeller]
  /\ last = Idle

\* What a command line can ask for: also a quantity of zero or less and a
\* price below zero.
Quantities == -1 .. MaxQty

Prices == -1 .. MaxPrice

CashAmounts == {3}

\* The calls of a scope are numbered from 1; 0 stands for no failure.
FailPoints == 0 .. (MaxQty + 3)

RecordBuy ==
  \E h \in Holdings, qty \in Quantities, prc \in Prices, date \in Dates,
     failAt \in FailPoints :
    record_transaction(h, "buy", qty, prc, date, failAt)

RecordSell ==
  \E h \in Holdings, qty \in Quantities, prc \in Prices,
     failAt \in FailPoints :
    record_transaction(h, "sell", qty, prc, 1, failAt)

\* A buy or sell command with well-formed numbers and no storage failure;
\* the buy without --date, so of the day.
BuyToday ==
  \E h \in Holdings, qty \in 1 .. MaxQty, prc \in 0 .. MaxPrice :
    record_transaction(h, "buy", qty, prc, MaxDate, 0)

Sell ==
  \E h \in Holdings, qty \in 1 .. MaxQty, prc \in 0 .. MaxPrice :
    record_transaction(h, "sell", qty, prc, 1, 0)

ReduceLot ==
  \E lot_id \in 1 .. MaxTx, qty_consumed \in 1 .. MaxQty :
    reduce_lot_call(lot_id, qty_consumed)

\* The CSV files: rows of Type, Ticker, Quantity, Price per share, Total
\* Amount and Date, each with its raw text.
Files ==
  { << [raw |-> "r1", type |-> "BUY - MARKET", ticker |-> "h1",
        quantity |-> 2, price |-> 1, total |-> 2, date |-> 1] >>,
    << [raw |-> "r2", type |-> "BUY - MARKET", ticker |-> "h2",
        quantity |-> 1, price |-> 1, total |-> 1, date |-> 2],
       [raw |-> "r3", type |-> "CASH TOP-UP", ticker |-> "",
        quantity |-> 0, price |-> 0, total |-> 3, date |-> 2] >> }

TargetPcts == {5000, 10000}

Thresholds == {500}

Import == \E file \in Files, dry_run \in BOOLEAN : import_run(file, dry_run)

Fetch == \E h \in Holdings, price \in 1 .. MaxPrice : prices_fetch(h, price)

SetTargets ==
  \E pct \in [{"bond", "etf"} -> TargetPcts],
     threshold \in [{"bond", "etf"} -> Thresholds] :
    set_targets(pct, threshold)

Execute == rebalance_execute(0)

\* The calls of execute are numbered from 1, three for each trade.
ExecuteFailPoints == 0 .. (3 * (MaxTx - 1))

ExecuteFailing == \E failAt \in ExecuteFailPoints : rebalance_execute(failAt)

CashAdd ==
  \E cash_type \in {"top_up"}, amount \in CashAmounts :
    cash_add(cash_type, amount)

Writes ==
  {[kind |-> "cash", key |-> "top_up", value |-> a] : a \in CashAmounts}
  \cup {[kind |-> "price", key |-> h, value |-> p] :
          h \in Holdings, p \in 1 .. MaxPrice}
  \cup {[kind |-> "target", key |-> k, value |-> p] :
          k \in {"bond", "etf"}, p \in TargetPcts}
  \cup {[kind |-> "untarget", key |-> k, value |-> 0] : k \in {"bond", "etf"}}

Scope ==
  \E n \in 1 .. MaxWrites, raised \in BOOLEAN :
    \E writes \in [1 .. n -> Writes] : scope(writes, raised)

Gains == -MaxGain .. MaxGain

Allowances == {0, 10, 100}

ExemptionRates == {0, 15, 30}

InitTax ==
  /\ conn = [work |-> EmptyTables, disk |-> EmptyTables, inTx |-> FALSE]
  /\ sellers = [p \in Sellers |-> NoSeller]
  /\ \E gain \in Gains, fsa \in Allowances, rate \in ExemptionRates :
       last = tax_asked(gain, fsa, rate)

Tax == tax_call

Years == 2018 .. 2026

VpShares == {0, 1, AmountScale, (5 * AmountScale) \div 2}

VpPrices == {Some(p) : p \in {0, 9900, 10000, 10100, 10500}} \cup {NoPrice}

InitVp ==
  /\ conn = [work |-> EmptyTables, disk |-> EmptyTables, inTx |-> FALSE]
  /\ sellers = [p \in Sellers |-> NoSeller]
  /\ \E year \in Years, shares_jan1 \in VpShares,
        price_jan1 \in VpPrices, price_dec31 \in VpPrices,
        tfs_rate \in ExemptionRates :
       last = vp_asked(year, shares_jan1, price_jan1, price_dec31, tfs_rate)

Vp == vp_call

VpCommand == vorabpauschale_command

RebalancerShares == {0, AmountScale, 2 * AmountScale}

RebalancerPrices == {NoPrice, Some(0), Some(1), Some(2)}

RebalancerThresholds == {500, 5000}

RebalancerTargets ==
  {NoTarget} \cup
    {Some([target_percentage |-> p, rebalance_threshold |-> th]) :
       p \in TargetPcts, th \in RebalancerThresholds}

InitRebalancer ==
  /\ conn = [work |-> EmptyTables, disk |-> EmptyTables, inTx |-> FALSE]
  /\ sellers = [p \in Sellers |-> NoSeller]
  /\ \E shares \in [Holdings -> RebalancerShares],
        prices \in [Holdings -> RebalancerPrices],
        targets \in [DOMAIN EmptyTables.targets -> RebalancerTargets] :
       last = rebalancer_new(
                [h \in Holdings |-> [shares |-> shares[h], cost_basis |-> 0]],
                prices, targets)

CheckDeviation == check_deviation_call

SuggestTrades == suggest_trades_call

YearSells ==
  {[gain |-> g, tfs_rate |-> r] : g \in {-50000, 150000}, r \in {0, 30}}

YearResults == {[taxable_vp |-> v] : v \in {0, 100000, 150000}}

InitYear ==
  /\ conn = [work |-> EmptyTables, disk |-> EmptyTables, inTx |-> FALSE]
  /\ sellers = [p \in Sellers |-> NoSeller]
  /\ \E n \in 0 .. 2, m \in 0 .. 2 :
       \E sells \in [1 .. n -> YearSells], results \in [1 .. m -> YearResults] :
         last = tax_year(sells, results)

Realized == realized

VorabpauschaleEstimate == vorabpauschale_estimate

SellPreview ==
  \E p \in Sellers, h \in Holdings, qty \in 1 .. MaxQty, prc \in 0 .. MaxPrice :
    sell_preview(p, h, qty, prc)

SellApply == \E p \in Sellers : sell_apply(p)

NextRecorder == RecordBuy \/ RecordSell

SpecRecorder == Init /\ [][NextRecorder]_vars

NextLedger == BuyToday \/ Sell \/ ReduceLot

SpecLedger == Init /\ [][NextLedger]_vars

NextCash == BuyToday \/ Sell \/ CashAdd

SpecCash == Init /\ [][NextCash]_vars

NextVp == Vp \/ VpCommand

SpecVp == InitVp /\ [][NextVp]_vars

NextRebalancer == CheckDeviation \/ SuggestTrades

SpecRebalancer == InitRebalancer /\ [][NextRebalancer]_vars

NextExecute == BuyToday \/ Fetch \/ SetTargets \/ ExecuteFailing

SpecExecute == Init /\ [][NextExecute]_vars

NextYear == Realized \/ VorabpauschaleEstimate

SpecYear == InitYear /\ [][NextYear]_vars

\* Buys, and two sells whose reads and scopes interleave.
NextInterleave == BuyToday \/ SellPreview \/ SellApply

SpecInterleave == Init /\ [][NextInterleave]_vars

NextTax == Tax

SpecTax == InitTax /\ [][NextTax]_vars

NextScope == Scope

SpecScope == Init /\ [][NextScope]_vars

NextImport == BuyToday \/ Sell \/ Import

SpecImport == Init /\ [][NextImport]_vars

\* The recorder, the price fetch and the rebalance commands; the recorder
\* with the importer is SpecImport.
Next == BuyToday \/ Sell \/ Fetch \/ SetTargets \/ Execute

Spec == Init /\ [][Next]_vars

\* ------------------------------------------------------------- properties
LotsOf(t, h) == {i \in DOMAIN t.lots : t.lots[i].holding_id = h}

RECURSIVE SumRemaining(_, _, _)
SumRemaining(lots, h, i) ==
  IF i = 0 THEN 0
  ELSE SumRemaining(lots, h, i - 1)
       + (IF lots[i].holding_id = h THEN lots[i].quantity_remaining ELSE 0)

RemainingOf(t, h) == SumRemaining(t.lots, h, Len(t.lots))

RECURSIVE SumRemainingCost(_, _, _)
SumRemainingCost(lots, h, i) ==
  IF i = 0 THEN 0
  ELSE SumRemainingCost(lots, h, i - 1)
       + (IF lots[i].holding_id = h
          THEN lots[i].quantity_remaining * lots[i].cost_per_unit ELSE 0)

BuysOf(t) == {i \in DOMAIN t.txs : t.txs[i].transaction_type = "buy"}

TradeCash(t) == {i \in DOMAIN t.cash : t.cash[i].cash_type \in {"buy", "sell"}}

\* A committed state holds every recorded trade whole: its row, its cash
\* movement and, for a buy, its lot; and nothing is left uncommitted.
Whole(c) ==
  /\ c.work = c.disk
  /\ ~c.inTx
  /\ Cardinality(TradeCash(c.disk)) = Len(c.disk.txs)
  /\ Len(c.disk.lots) = Cardinality(BuysOf(c.disk))

\* C1: a recorded buy or sell whose transaction scope fails at any of its
\* calls leaves the connection and the committed tables exactly as they
\* were, and every state holds each recorded trade whole.
C1_RecordIsAtomic ==
  [][/\ (last'.op = "record" /\ last'.outcome = "failed") => conn' = conn
     /\ Whole(conn')]_vars

\* A buy failed at its cash movement, after the transaction row, the lot and
\* the holding had been written, in a state that already holds trades.
C1_Witness ==
  /\ last.op = "record" /\ last.outcome = "failed" /\ last.failAt = 4
  /\ Len(conn.disk.txs) > 0

\* C2: after any sequence of recorded buys and sells, each holding's shares
\* equal the sum of quantity_remaining over its lots.
C2_SharesEqualLots ==
  \A h \in Holdings : conn.work.holdings[h].shares = RemainingOf(conn.work, h)

\* A sell went through and left shares in a holding of two lots.
C2_Witness ==
  /\ last.op = "record" /\ last.outcome = "ok" /\ last.tx_type = "sell"
  /\ conn.work.holdings[last.holding].shares > 0
  /\ Cardinality(LotsOf(conn.work, last.holding)) = 2

\* C5: a sell reduces a lot only if every open lot of the holding that is
\* earlier by (acquired_date, id) ends the sell fully consumed.
EarlierLot(lots, i, j) ==
  \/ lots[i].acquired_date < lots[j].acquired_date
  \/ lots[i].acquired_date = lots[j].acquired_date /\ i < j

SoldFifo(t, u, h) ==
  \A i, j \in LotsOf(t, h) :
    ( /\ EarlierLot(t.lots, i, j)
      /\ t.lots[i].quantity_remaining > 0
      /\ u.lots[j].quantity_remaining < t.lots[j].quantity_remaining )
    => u.lots[i].quantity_remaining = 0

C5_SellConsumesFifo ==
  [][(last'.op = "record" /\ last'.outcome = "ok" /\ last'.tx_type = "sell")
       => SoldFifo(conn.work, conn'.work, last'.holding)]_vars

\* A sell consumed the lot with the higher id first and reached a second lot.
C5_Witness ==
  /\ last.op = "record" /\ last.outcome = "ok" /\ last.tx_type = "sell"
  /\ Len(last.match.lots_to_consume) = 2
  /\ last.match.lots_to_consume[1].lot_id > last.match.lots_to_consume[2].lot_id

\* C7: after any sequence of recorded buys and sells, each holding's
\* cost_basis is the sum of quantity_remaining * cost_per_unit over its lots.
C7_CostBasisIsFifo ==
  \A h \in Holdings :
    conn.work.holdings[h].cost_basis =
      SumRemainingCost(conn.work.lots, h, Len(conn.work.lots))

\* A sell consumed part of a lot and left a cost basis above zero.
C7_Witness ==
  /\ last.op = "record" /\ last.outcome = "ok" /\ last.tx_type = "sell"
  /\ conn.work.holdings[last.holding].cost_basis > 0
  /\ \E i \in LotsOf(conn.work, last.holding) :
       /\ conn.work.lots[i].quantity_remaining > 0
       /\ conn.work.lots[i].quantity_remaining < conn.work.lots[i].quantity

\* C8: a request with quantity <= 0, price < 0 or a sell above the shares held
\* changes nothing: a command that is rejected leaves the connection as it
\* was, and a command that went through had quantity > 0, price >= 0 and, for
\* a sell, a quantity within the shares held before it.
C8_RejectedBeforeMutation ==
  [][last'.op = "record" =>
       /\ last'.outcome = "rejected" => conn' = conn
       /\ conn' # conn =>
            /\ last'.outcome = "ok"
            /\ last'.qty > 0
            /\ last'.prc >= 0
            /\ last'.tx_type = "sell" =>
                 last'.qty <= conn.work.holdings[last'.holding].shares]_vars

\* A sell of more than the shares held was rejected while shares were held.
C8_Witness ==
  /\ last.op = "record" /\ last.outcome = "rejected"
  /\ last.reason = "oversell"
  /\ \E h \in Holdings : conn.work.holdings[h].shares > 0

\* C3: every tax lot has 0 <= quantity_remaining <= quantity, whatever
\* buys, sells and lot reductions produced the state.
C3_RemainingWithinLot ==
  \A i \in DOMAIN conn.work.lots :
    /\ 0 <= conn.work.lots[i].quantity_remaining
    /\ conn.work.lots[i].quantity_remaining <= conn.work.lots[i].quantity

\* C4: a reduction of a lot by more than its quantity_remaining fails and
\* leaves the tables as they were.
C4_OverConsumptionFails ==
  [][( /\ last'.op = "reduce_lot"
       /\ last'.lot \in DOMAIN conn.work.lots
       /\ last'.qty > conn.work.lots[last'.lot].quantity_remaining )
       => (last'.outcome = "failed" /\ conn' = conn)]_vars

\* What the trades and the other cash movements add up to, in units of
\* 1 / AmountScale euro.
RECURSIVE SumTrades(_, _)
SumTrades(txs, i) ==
  IF i = 0 THEN 0
  ELSE SumTrades(txs, i - 1)
       + (IF txs[i].transaction_type = "sell"
          THEN txs[i].quantity * txs[i].price
          ELSE -(txs[i].quantity * txs[i].price))

RECURSIVE SumAmounts(_)
SumAmounts(rows) ==
  IF rows = <<>> THEN 0 ELSE Head(rows).amount + SumAmounts(Tail(rows))

TradeRows(t) == SelectSeq(t.cash, LAMBDA r : r.cash_type \in {"buy", "sell"})

\* Each recorded trade has its one cash movement, of -(qty * price) for a buy
\* and +(qty * price) for a sell.
OneCashRowPerTrade(t) ==
  /\ Len(TradeRows(t)) = Len(t.txs)
  /\ \A i \in DOMAIN t.txs :
       /\ TradeRows(t)[i].cash_type = t.txs[i].transaction_type
       /\ TradeRows(t)[i].amount =
            IF t.txs[i].transaction_type = "sell"
            THEN t.txs[i].quantity * t.txs[i].price
            ELSE -(t.txs[i].quantity * t.txs[i].price)

\* C10: each recorded trade has one cash movement of its signed value, and
\* the cash balance is the sum of the other cash movements plus the sells
\* minus the buys.  Decimal(str(x)) of a REAL x is a decimal d of at most 15
\* digits exactly when x is the REAL nearest to d.
C10_BalanceIsSum ==
  /\ OneCashRowPerTrade(conn.work)
  /\ get_balance(conn.work) =
       RealOfText(SumAmounts(OtherCash(conn.work))
                  + SumTrades(conn.work.txs, Len(conn.work.txs)))

\* The cash movements alone are as C10 says.
C10_CashRows == OneCashRowPerTrade(conn.work)

\* What a step took from the lots of a holding, and the gain of a sale of
\* it at prc: the sum of taken * (prc - cost_per_unit).
RECURSIVE SumConsumed(_, _, _, _)
SumConsumed(t, u, h, i) ==
  IF i = 0 THEN 0
  ELSE SumConsumed(t, u, h, i - 1)
       + (IF t.lots[i].holding_id = h
          THEN t.lots[i].quantity_remaining - u.lots[i].quantity_remaining
          ELSE 0)

RECURSIVE SumGain(_, _, _, _, _)
SumGain(t, u, h, prc, i) ==
  IF i = 0 THEN 0
  ELSE SumGain(t, u, h, prc, i - 1)
       + (IF t.lots[i].holding_id = h
          THEN (t.lots[i].quantity_remaining - u.lots[i].quantity_remaining)
                 * (prc - t.lots[i].cost_per_unit)
          ELSE 0)

\* C6: a sell that the recorder accepts takes exactly its quantity from the
\* lots of the holding, and the realized_gain of its transaction is the sum
\* of taken * (price - cost_per_unit) over them, in every state that buys,
\* sells, imports and rebalance executions lead to.
C6_SellConsumesItsQuantity ==
  [][(last'.op = "record" /\ last'.outcome = "ok" /\ last'.tx_type = "sell")
       => /\ SumConsumed(conn.work, conn'.work, last'.holding,
                         Len(conn.work.lots)) = last'.qty
          /\ conn'.work.txs[Len(conn'.work.txs)].realized_gain =
               Some(SumGain(conn.work, conn'.work, last'.holding, last'.prc,
                            Len(conn.work.lots)))]_vars

BuysOfHolding(t, h) == {i \in BuysOf(t) : t.txs[i].holding_id = h}

LotsLinkedTo(t, i) ==
  {j \in DOMAIN t.lots : t.lots[j].buy_transaction_id = i}

\* C9: every buy transaction has exactly one lot linked to it, of the
\* holding, the quantity and the price of the buy; a lot is created with
\* quantity_remaining = quantity; and a holding has as many lots as buy
\* transactions.
C9_EveryBuyHasItsLot ==
  [][/\ \A i \in BuysOf(conn'.work) :
          /\ Cardinality(LotsLinkedTo(conn'.work, i)) = 1
          /\ \A j \in LotsLinkedTo(conn'.work, i) :
               /\ conn'.work.lots[j].holding_id = conn'.work.txs[i].holding_id
               /\ conn'.work.lots[j].quantity = conn'.work.txs[i].quantity
               /\ conn'.work.lots[j].cost_per_unit = conn'.work.txs[i].price
     /\ \A j \in DOMAIN conn'.work.lots \ DOMAIN conn.work.lots :
          conn'.work.lots[j].quantity_remaining = conn'.work.lots[j].quantity
     /\ \A h \in Holdings :
          Cardinality(LotsOf(conn'.work, h))
            = Cardinality(BuysOfHolding(conn'.work, h))]_vars

C12_ScopeRollsBackEveryWrite ==
  [][last'.op = "scope"
       => /\ conn'.work = conn'.disk
          /\ conn'.disk = IF last'.outcome = "raised" THEN conn.disk
                          ELSE apply_writes(conn, last'.writes).work]_vars

\* The same for the scopes that write no target.
C12_OtherWritesRollBack ==
  [][( /\ last'.op = "scope"
       /\ \A i \in DOMAIN last'.writes :
            last'.writes[i].kind \in {"cash", "price"} )
       => /\ conn'.work = conn'.disk
          /\ conn'.disk = IF last'.outcome = "raised" THEN conn.disk
                          ELSE apply_writes(conn, last'.writes).work]_vars

\* n / d lies within half a cent of c cents.
NearestCent(c, n, d) == 2 * Abs(c * d - n) <= d

\* C13: for a gain above 0 the stages come in the order exemption,
\* allowance, flat tax and surcharge: the exemption is gain * rate to the
\* cent, the allowance used min(gain - exempt, allowance), the taxable
\* gain max(gain - exempt - allowance, 0), the flat tax 25 % of it to the
\* cent, the surcharge 5.5 % of the flat tax to the cent, the total their
\* sum and the net gain the gain less the total.
C13_StagesInOrder ==
  (last.op = "tax" /\ last.outcome = "ok" /\ last.tax.info.gross_gain > 0)
    => LET i    == last.tax.info
           gain == i.gross_gain
       IN  /\ NearestCent(i.teilfreistellung_exempt,
                          gain * last.tax.rate, 100)
           /\ i.freistellungsauftrag_used
                = Min(gain - i.teilfreistellung_exempt, last.tax.fsa)
           /\ i.taxable_gain
                = Max(gain - i.teilfreistellung_exempt - last.tax.fsa, 0)
           /\ NearestCent(i.abgeltungssteuer, i.taxable_gain * 25, 100)
           /\ NearestCent(i.solidaritaetszuschlag,
                          i.abgeltungssteuer * 55, 1000)
           /\ i.total_tax = i.abgeltungssteuer + i.solidaritaetszuschlag
           /\ i.net_gain = gain - i.total_tax

C13_Witness ==
  /\ last.op = "tax" /\ last.outcome = "ok"
  /\ last.tax.rate = 30 /\ last.tax.fsa = 100
  /\ last.tax.info.gross_gain = 1000
  /\ last.tax.info.teilfreistellung_exempt = 300
  /\ last.tax.info.freistellungsauftrag_used = 100
  /\ last.tax.info.taxable_gain = 600
  /\ last.tax.info.abgeltungssteuer = 150
  /\ last.tax.info.solidaritaetszuschlag = 8
  /\ last.tax.info.net_gain = 842

\* C14: for a gain of 0 or less the total tax is 0 and the net gain is the
\* gain, with no exemption, no allowance used, no taxable gain, no flat tax
\* and no surcharge, whatever the allowance and the rate.
C14_NoTaxWithoutGain ==
  (last.op = "tax" /\ last.outcome = "ok" /\ last.tax.info.gross_gain <= 0)
    => last.tax.info = [TaxInfo EXCEPT
                         !.gross_gain = last.tax.info.gross_gain,
                         !.net_gain = last.tax.info.gross_gain]

C14_Witness ==
  /\ last.op = "tax" /\ last.outcome = "ok"
  /\ last.tax.info.gross_gain = -MaxGain
  /\ last.tax.rate = 30 /\ last.tax.fsa = 100
  /\ last.tax.info.net_gain = -MaxGain

\* n / d rounded to a whole number with a tie going up.
HalfUp(n, d) == (2 * n + d) \div (2 * d)

\* C15: the exemption, the flat tax and the surcharge are each rounded to
\* the cent with a tie going to the higher cent.
C15_RoundsHalfUp ==
  (last.op = "tax" /\ last.outcome = "ok" /\ last.tax.info.gross_gain > 0)
    => LET i == last.tax.info
       IN  /\ i.teilfreistellung_exempt
                = HalfUp(i.gross_gain * last.tax.rate, 100)
           /\ i.abgeltungssteuer = HalfUp(i.taxable_gain * 25, 100)
           /\ i.solidaritaetszuschlag
                = HalfUp(i.abgeltungssteuer * 55, 1000)

\* C16: the prepayment is the cent nearest to shares times the deemed
\* income per share, and that deemed income is the smaller of the base
\* return and the fund growth, hence above neither, and is not negative;
\* the fund growth is at least the price difference; the prepayment and
\* its taxable part are not negative, and both are 0 when the price at the
\* end of the year is below the price at its start.
C16_DeemedIncomeCapped ==
  (last.op = "vp" /\ last.outcome = "ok")
    => LET r   == last.vp.result
           per == Min(r.basisertrag_per_share, r.fondszuwachs_per_share)
       IN  /\ per >= 0
           /\ 2 * Abs(r.vorabpauschale * AmountScale * 100
                        - per * last.vp.shares_jan1) <= AmountScale * 100
           /\ r.vorabpauschale >= 0 /\ r.taxable_vp >= 0
           /\ r.fondszuwachs_per_share
                >= (last.vp.price_dec31[1] - last.vp.price_jan1[1]) * 100
           /\ (last.vp.price_dec31[1] < last.vp.price_jan1[1])
                => (r.vorabpauschale = 0 /\ r.taxable_vp = 0)

\* A year in which the fund growth, not the base return, is the cap.
C16_Witness ==
  /\ last.op = "vp" /\ last.outcome = "ok"
  /\ last.vp.year = 2023 /\ last.vp.shares_jan1 = AmountScale
  /\ last.vp.price_jan1 = Some(10000) /\ last.vp.price_dec31 = Some(10100)
  /\ last.vp.result.basisertrag_per_share = 17850
  /\ last.vp.result.fondszuwachs_per_share = 10000
  /\ last.vp.result.vorabpauschale = 100

\* C17: when the year has no base rate in the table read, or a price is
\* not available, the computation reports that the data is not there; the
\* function returns no result, and the command neither answers that no
\* prepayment is due nor shows a result.
C17_MissingDataIsReported ==
  /\ (last.op = "vp" /\ last.vp.year \notin DOMAIN BASISZINS)
       => last.outcome # "ok"
  /\ ( /\ last.op = "vp_command"
       /\ \/ last.vp.year \notin DOMAIN PortfolioCalculator_BASISZINS
          \/ last.vp.price_jan1 = NoPrice
          \/ last.vp.price_dec31 = NoPrice )
       => /\ last.outcome # "keine Vorabpauschale faellig"
          /\ last.outcome # "ok"
          /\ last.reason \in {"insufficient data",
                               "could not fetch historical prices"}

\* C18: in a year whose base rate is 0, and in a year the table does not
\* know, the base return per share, the prepayment and its taxable part
\* are 0 whatever the shares, the prices and the exemption rate.
C18_NothingDueAtRateZero ==
  ( /\ last.op = "vp" /\ last.outcome = "ok"
    /\ last.vp.year \in (2020 .. 2022) \cup (Years \ DOMAIN BASISZINS) )
    => /\ last.vp.result.basisertrag_per_share = 0
       /\ last.vp.result.vorabpauschale = 0
       /\ last.vp.result.taxable_vp = 0

C18_Witness ==
  /\ last.op = "vp" /\ last.outcome = "ok"
  /\ last.vp.year = 2026 /\ last.vp.shares_jan1 = (5 * AmountScale) \div 2
  /\ last.vp.price_jan1 = Some(10000) /\ last.vp.price_dec31 = Some(10500)
  /\ last.vp.tfs_rate = 30
  /\ last.vp.result.fondszuwachs_per_share = 50000
  /\ last.vp.result.vorabpauschale = 0

\* C19: every sale suggest_trades returns is of more than 0 shares and of
\* no more than the shares held in its holding, also when the amount to
\* adjust divided by the price is above the shares held.
C19_SellWithinHeld ==
  (last.op = "suggest_trades" /\ last.outcome = "ok")
    => \A i \in DOMAIN last.trades :
         last.trades[i].action = "sell"
           => /\ last.trades[i].shares > 0
              /\ last.trades[i].shares
                   <= last.rebalancer.holdings[last.trades[i].holding].shares

\* A sale cut down to the shares held.
C19_Witness ==
  /\ last.op = "suggest_trades" /\ last.outcome = "ok"
  /\ \E i \in DOMAIN last.trades :
       LET h == last.trades[i].holding
           t == last.rebalancer
       IN  /\ last.trades[i].action = "sell"
           /\ last.trades[i].shares = t.holdings[h].shares
           /\ TradeShares(t, KeyOf(h, ByIsin(t)), h) > t.holdings[h].shares

\* C20: check_deviation has, for every holding whose key (asset type, or
\* ISIN when the targets are by security) has no target, an entry of that
\* key with target 0, threshold 0 and needs_rebalance, whether or not the
\* holding has a price and whatever the total value.
C20_UntargetedIsReported ==
  (last.op = "check_deviation" /\ last.outcome = "ok")
    => \A h \in Holdings :
         LET key == KeyOf(h, ByIsin(last.rebalancer))
         IN  key \notin TargetKeys(last.rebalancer)
               => \E i \in DOMAIN last.deviations :
                    /\ last.deviations[i].key = key
                    /\ last.deviations[i].target = 0
                    /\ last.deviations[i].threshold = 0
                    /\ last.deviations[i].needs_rebalance

\* The connection after the first j trades of a rebalance, each applied whole.
AfterTrades(c, j) ==
  ExecuteAll([c |-> c, raised |-> FALSE], 1, 0, c.work.holdings,
             SubSeq(suggest_trades(c.work), 1, j)).c

\* C21: an execution of a rebalance, failed or not, leaves in the database
\* the trades applied so far, each of them whole: its transaction row, its
\* cash movement and its holding update are all there or none is, and the
\* trades before a failure stay.
C21_EachTradeIsAtomic ==
  [][ (last'.op = "execute" /\ last'.outcome \in {"ok", "failed"})
        => \E j \in 0 .. Len(suggest_trades(conn.work)) :
             conn'.disk = AfterTrades(conn, j).disk ]_vars

\* C22: an execution of a rebalance in which a trade raises leaves the
\* shares and the cost basis of every holding as they were and commits no
\* transaction.
C22_FailedRebalanceRollsBack ==
  [][ (last'.op = "execute" /\ last'.outcome = "failed")
        => /\ conn'.disk.holdings = conn.disk.holdings
           /\ conn'.disk.txs = conn.disk.txs ]_vars

\* C25: after an execution of a rebalance every traded holding has the
\* sum of what remains in its lots as its shares and the FIFO sum of
\* quantity_remaining * cost_per_unit as its cost basis.
C25_RebalanceKeepsLedger ==
  [][ (last'.op = "execute" /\ last'.outcome = "ok")
        => \A i \in DOMAIN suggest_trades(conn.work) :
             LET h == suggest_trades(conn.work)[i].holding
             IN  /\ conn'.work.holdings[h].shares = RemainingOf(conn'.work, h)
                 /\ conn'.work.holdings[h].cost_basis
                      = get_fifo_cost_basis(conn'.work, h) ]_vars

\* The entries of a key among those check_deviation returns.
EntriesOf(t, key) ==
  {i \in DOMAIN check_deviation(t) : check_deviation(t)[i].key = key}

\* C23: every trade suggest_trades returns is for a key that check_deviation
\* flags and for a holding of that key with a price above 0, has more than 0
\* shares, and is a sale where the deviation of the key is above 0 and a
\* purchase where it is below; there is no trade when no key is flagged or
\* the total value is 0.
C23_TradesFollowDeviation ==
  (last.op = "suggest_trades" /\ last.outcome = "ok")
    => LET t == last.rebalancer
       IN  /\ \A i \in DOMAIN last.trades :
                LET trade == last.trades[i]
                    h     == trade.holding
                    key   == KeyOf(h, ByIsin(t))
                IN  /\ t.prices[h] # NoPrice /\ t.prices[h][1] > 0
                    /\ trade.current_price = t.prices[h][1]
                    /\ trade.shares > 0
                    /\ \E j \in EntriesOf(t, key) :
                         LET e == check_deviation(t)[j]
                         IN  /\ e.needs_rebalance
                             /\ e.deviation # 0
                             /\ (e.deviation > 0) = (trade.action = "sell")
                             /\ (e.deviation < 0) = (trade.action = "buy")
           /\ ( \/ total_value(t) = 0
                \/ \A j \in DOMAIN check_deviation(t) :
                     ~check_deviation(t)[j].needs_rebalance )
                => last.trades = <<>>

\* A purchase and a sale in one answer, and a key within its threshold that
\* gets no trade.
C23_Witness ==
  /\ last.op = "suggest_trades" /\ last.outcome = "ok"
  /\ \E i, j \in DOMAIN last.trades :
       last.trades[i].action = "sell" /\ last.trades[j].action = "buy"

C23_WitnessWithin ==
  /\ last.op = "suggest_trades" /\ last.outcome = "ok"
  /\ last.trades = <<>>
  /\ total_value(last.rebalancer) > 0
  /\ \E j \in DOMAIN check_deviation(last.rebalancer) :
       LET e == check_deviation(last.rebalancer)[j]
       IN  e.deviation # 0 /\ ~e.needs_rebalance

\* C29: check_deviation has for every target an entry with the target and
\* the threshold of the target, deviation = current - target, and
\* needs_rebalance exactly when |deviation| is above the threshold, so not
\* when it equals it; a target key without a priced holding has current 0
\* and deviation -target.
C29_DeviationIsStrict ==
  (last.op = "check_deviation" /\ last.outcome = "ok")
    => LET t == last.rebalancer
       IN  \A key \in TargetKeys(t) :
             \E i \in DOMAIN last.deviations :
               LET e == last.deviations[i]
               IN  /\ e.key = key
                   /\ e.target = t.targets[key][1].target_percentage
                   /\ e.threshold = t.targets[key][1].rebalance_threshold
                   /\ e.deviation = e.current - e.target
                   /\ e.needs_rebalance = (Abs(e.deviation) > e.threshold)
                   /\ (\A h \in Holdings :
                         KeyOf(h, ByIsin(t)) = key => t.prices[h] = NoPrice)
                        => (e.current = 0 /\ e.deviation = -e.target)

\* A deviation as large as the threshold and not flagged, of a key that has
\* a share.
C29_Witness ==
  /\ last.op = "check_deviation" /\ last.outcome = "ok"
  /\ \E i \in DOMAIN last.deviations :
       LET e == last.deviations[i]
       IN  /\ e.key \in TargetKeys(last.rebalancer)
           /\ e.current > 0
           /\ Abs(e.deviation) = e.threshold
           /\ ~e.needs_rebalance

\* The connection after a run of the importer over file that is not a dry
\* run.
RealRun(c, file) ==
  transaction_exit([c |-> run_import(transaction_enter(c).c, file),
                    raised |-> FALSE]).c

C26_ImportKeepsLedger ==
  (last.op = "import" /\ last.outcome = "ok")
    => \A h \in holding_map(last.file) :
         /\ conn.work.holdings[h].shares = RemainingOf(conn.work, h)
         /\ conn.work.holdings[h].cost_basis
              = get_fifo_cost_basis(conn.work, h)

\* C27: for one portfolio and one year the allowance the estimate of the
\* realized gains has used and the allowance the estimate of the prepayment
\* has used are together no more than the annual allowance.
C27_AllowanceUsedOnce ==
  (last.op = "tax_year" /\ last.estimate.shown = {"realized", "vorabpauschale"})
    => last.estimate.fsa_used.realized + last.estimate.fsa_used.vorabpauschale
         <= DEFAULT_FREISTELLUNGSAUFTRAG

\* C30: the two calculate_vorabpauschale return the same result for every
\* input and every year, a year that only one of the two tables has
\* included.
C30_SameDeemedIncome ==
  (last.op = "vp" /\ last.outcome = "ok")
    => last.vp.result
         = PortfolioCalculator_calculate_vorabpauschale(
             last.vp.year, last.vp.shares_jan1, last.vp.price_jan1[1],
             last.vp.price_dec31[1], last.vp.tfs_rate)

\* C28: when two sells of one holding have both computed their preview
\* before either ran its scope, then after both have completed no lot of the
\* holding has a quantity_remaining below 0, the shares of the holding are
\* not below 0, and they are the sum of the quantity_remaining of its lots.
C28_InterleavedSellsKeepLots ==
  \A h \in Holdings :
    (\A p \in Sellers : sellers[p].pc = "done" /\ sellers[p].holding = h)
      => /\ \A i \in LotsOf(conn.work, h) :
              conn.work.lots[i].quantity_remaining >= 0
         /\ conn.work.holdings[h].shares >= 0
         /\ conn.work.holdings[h].shares = RemainingOf(conn.work, h)

====
